---- MODULE Spec2Model ----
(***************************************************************************)
(* Dual-backend data access of the club website client:                    *)
(*   - apiRequest and the resource APIs built on it (works, user,          *)
(*     messages, voting, knowledge) with their localStorage fallback;      *)
(*   - the session manager of useAuthContext (mount effect, login,         *)
(*     register, logout, isAdmin) and ensureAdminExists.                   *)
(* Strings that the code inspects character by character (phone numbers,   *)
(* user names) are sequences of one-character tokens; Chinese characters   *)
(* are written as ASCII tokens (jie = U+5C4A, ban = U+73ED, ji = U+7D1A).  *)
(***************************************************************************)
EXTENDS Integers, Sequences, FiniteSets, TLC

VARIABLES
    isAuthenticated,   \* useState(false)
    user,              \* useState<User | null>(null)
    store,             \* window.localStorage: key -> stored string
    dev,               \* import.meta.env.DEV of the build
    mounted,           \* the mount effect of useAuthContext has run
    calls,             \* login/register calls suspended at their await
    last               \* what the last step did and returned (observation)

vars == <<isAuthenticated, user, store, dev, mounted, calls, last>>

\* Number of login/register calls that may be suspended at once.
MaxCalls == 2

(***************************************************************************)
(* JSON values and stored strings                                          *)
(***************************************************************************)
\* JavaScript null / JSON null.
JNull == [t |-> "null"]

\* A JSON array.
JArr(items) == [t |-> "arr", items |-> items]

IsArr(v) == "t" \in DOMAIN v /\ v.t = "arr"

\* A stored string: no entry, the empty string, text that is not JSON,
\* or the JSON text of a value.
Absent == [t |-> "absent"]
EmptyText == [t |-> "empty"]
BadText == [t |-> "bad"]

\* JSON.stringify(v): the JSON text of v.
JSONstringify(v) == [t |-> "json", v |-> v]

\* JSON.parse(s) throws a SyntaxError unless s is JSON text.
JSONparseThrows(s) == s.t # "json"

\* JSON.parse(s) for JSON text s.
JSONparse(s) == s.v

\* Truthiness of what getItem returned (null and "" are falsy).
ItemTruthy(s) == s.t \notin {"absent", "empty"}

\* Truthiness of a JSON value that is null, an object or an array.
Truthy(v) == v # JNull

\* The object r without its property f ({ f: _, ...rest } = r).
Without(r, f) == [k \in DOMAIN r \ {f} |-> r[k]]

\* Outcome of a function: a returned value or a raised error.
Return(v) == [t |-> "return", v |-> v]
Throw(e) == [t |-> "throw", e |-> e]

\* What a handler did: its outcome and localStorage when it finished.
Done(res, st) == [res |-> res, st |-> st]

(***************************************************************************)
(* localStorage                                                            *)
(***************************************************************************)
ResourceKeys == {"submittedWorks", "featuredWorks", "messages",
                 "votingActivities", "photographyKnowledge"}

Keys == {"currentUser", "users"} \cup ResourceKeys

\* Condition of the storage during one handler: working, every access
\* throwing (storage disabled), or writes throwing (quota exceeded).
StoreModes == {"ok", "down", "full"}

\* The conditions a handler that only reads can tell apart.
ReadModes == {"ok", "down"}

\* safeLocalStorageGet(key, fallback): the decoded value at key, or fallback
\* on a missing key, a decode failure or an unavailable store; never raises.
safeLocalStorageGet(key, fallback, sf) ==
    IF sf = "down" \/ ~ItemTruthy(store[key]) \/ JSONparseThrows(store[key])
    THEN fallback
    ELSE JSONparse(store[key])

\* safeLocalStorageSet(key, value): the store after the call; a failed write
\* is swallowed and leaves the store as it was.
safeLocalStorageSet(st, key, value, sf) ==
    IF sf = "ok" THEN [st EXCEPT ![key] = JSONstringify(value)] ELSE st

(***************************************************************************)
(* apiRequest                                                              *)
(***************************************************************************)
\* Cached collections and users the remote may return.
Work1 == [wid |-> "w1"]
Work2 == [wid |-> "w2"]
Payloads == {JArr(<<Work1>>), JArr(<<Work2, Work1>>)}

ServerError == [m |-> "server"]

\* Response bodies: envelopes with and without data, and JSON null.
Bodies(datas) ==
    {[success |-> TRUE, data |-> d] : d \in datas \cup {JNull}}
    \cup {[success |-> TRUE],
          [success |-> FALSE, error |-> ServerError],
          JNull}
    \cup {[success |-> FALSE, data |-> d, error |-> ServerError] : d \in datas}

\* What the network does with one request: fetch rejects, a non-2xx status,
\* a 2xx response whose body is not JSON, or a 2xx response with a JSON body.
Nets(datas) ==
    {[k |-> "reject"], [k |-> "badbody"]}
    \cup {[k |-> "status", status |-> s] : s \in {401, 500}}
    \cup {[k |-> "json", body |-> b] : b \in Bodies(datas)}

\* Every caught error reported with the same text.
CaughtMessage_Generic(net) == [m |-> "Unknown error"]

\* The message of the error caught by apiRequest.
CaughtMessage(net) ==
    CASE net.k = "reject" -> [m |-> "Failed to fetch"]
      [] net.k = "badbody" -> [m |-> "Unexpected token"]
      [] net.k = "status" -> [m |-> "API request failed", status |-> net.status]

DevMessage == [m |-> "API unavailable, using local storage"]

apiRequest(net) ==
    IF net.k = "json"
    THEN net.body
    ELSE IF dev
         THEN [success |-> FALSE, error |-> DevMessage]
         ELSE [success |-> FALSE, error |-> CaughtMessage(net)]

\* result.success, read from a non-null value.
Success(result) == "success" \in DOMAIN result /\ result.success

\* result.data is present and truthy.
HasData(result) == "data" \in DOMAIN result /\ Truthy(result.data)

(***************************************************************************)
(* Resource APIs.  A read falls back to the resource's localStorage key    *)
(* when the request did not succeed; a write returns what apiRequest       *)
(* returned.  Each operator gives the outcome of the call (the returned     *)
(* value, or the error raised by reading .success of a null response) and  *)
(* localStorage as the call leaves it.                                     *)
(***************************************************************************)
\* worksApi.getSubmittedWorks
getSubmittedWorks(net, sf) ==
    LET result == apiRequest(net) IN
    IF result = JNull THEN Done(Throw("TypeError"), store)
    ELSE IF ~Success(result)
              /\ sf # "down"
              /\ ItemTruthy(store["submittedWorks"])
              /\ ~JSONparseThrows(store["submittedWorks"])
         THEN Done(Return([success |-> TRUE, data |-> JSONparse(store["submittedWorks"])]), store)
         ELSE Done(Return(result), store)

\* getFeaturedWorks copied from getSubmittedWorks with the key left as it was.
getFeaturedWorks_SubmittedKey(net, sf) ==
    LET result == apiRequest(net) IN
    IF result = JNull THEN Done(Throw("TypeError"), store)
    ELSE IF ~Success(result)
              /\ sf # "down"
              /\ ItemTruthy(store["submittedWorks"])
              /\ ~JSONparseThrows(store["submittedWorks"])
         THEN Done(Return([success |-> TRUE, data |-> JSONparse(store["submittedWorks"])]), store)
         ELSE Done(Return(result), store)

\* worksApi.getFeaturedWorks
getFeaturedWorks(net, sf) ==
    LET result == apiRequest(net) IN
    IF result = JNull THEN Done(Throw("TypeError"), store)
    ELSE IF ~Success(result)
              /\ sf # "down"
              /\ ItemTruthy(store["featuredWorks"])
              /\ ~JSONparseThrows(store["featuredWorks"])
         THEN Done(Return([success |-> TRUE, data |-> JSONparse(store["featuredWorks"])]), store)
         ELSE Done(Return(result), store)

\* getMessages adding the cached messages to the failed result.
getMessages_SpreadResult(net, sf) ==
    LET result == apiRequest(net) IN
    IF result = JNull THEN Done(Throw("TypeError"), store)
    ELSE IF ~Success(result)
              /\ sf # "down"
              /\ ItemTruthy(store["messages"])
              /\ ~JSONparseThrows(store["messages"])
         THEN Done(Return([data |-> JSONparse(store["messages"])] @@ result), store)
         ELSE Done(Return(result), store)

\* messageApi.getMessages
getMessages(net, sf) ==
    LET result == apiRequest(net) IN
    IF result = JNull THEN Done(Throw("TypeError"), store)
    ELSE IF ~Success(result)
              /\ sf # "down"
              /\ ItemTruthy(store["messages"])
              /\ ~JSONparseThrows(store["messages"])
         THEN Done(Return([success |-> TRUE, data |-> JSONparse(store["messages"])]), store)
         ELSE Done(Return(result), store)

\* getActivities reading the cache outside a try block.
getActivities_NoTry(net, sf) ==
    LET result == apiRequest(net) IN
    IF result = JNull THEN Done(Throw("TypeError"), store)
    ELSE IF Success(result) THEN Done(Return(result), store)
    ELSE IF sf = "down" THEN Done(Throw("DOMException"), store)
    ELSE IF ~ItemTruthy(store["votingActivities"]) THEN Done(Return(result), store)
    ELSE IF JSONparseThrows(store["votingActivities"])
         THEN Done(Throw("SyntaxError"), store)
         ELSE Done(Return([success |-> TRUE,
                           data |-> JSONparse(store["votingActivities"])]), store)

\* votingApi.getActivities
getActivities(net, sf) ==
    LET result == apiRequest(net) IN
    IF result = JNull THEN Done(Throw("TypeError"), store)
    ELSE IF ~Success(result)
              /\ sf # "down"
              /\ ItemTruthy(store["votingActivities"])
              /\ ~JSONparseThrows(store["votingActivities"])
         THEN Done(Return([success |-> TRUE, data |-> JSONparse(store["votingActivities"])]), store)
         ELSE Done(Return(result), store)

\* getKnowledgeItems mirroring a successful answer into the cache.
getKnowledgeItems_Mirrors(net, sf) ==
    LET result == apiRequest(net) IN
    IF result = JNull THEN Done(Throw("TypeError"), store)
    ELSE IF Success(result) /\ HasData(result) /\ sf = "ok"
         THEN Done(Return(result),
                   [store EXCEPT !["photographyKnowledge"] = JSONstringify(result.data)])
    ELSE IF ~Success(result)
              /\ sf # "down"
              /\ ItemTruthy(store["photographyKnowledge"])
              /\ ~JSONparseThrows(store["photographyKnowledge"])
         THEN Done(Return([success |-> TRUE, data |-> JSONparse(store["photographyKnowledge"])]), store)
         ELSE Done(Return(result), store)

\* knowledgeApi.getKnowledgeItems
getKnowledgeItems(net, sf) ==
    LET result == apiRequest(net) IN
    IF result = JNull THEN Done(Throw("TypeError"), store)
    ELSE IF ~Success(result)
              /\ sf # "down"
              /\ ItemTruthy(store["photographyKnowledge"])
              /\ ~JSONparseThrows(store["photographyKnowledge"])
         THEN Done(Return([success |-> TRUE, data |-> JSONparse(store["photographyKnowledge"])]), store)
         ELSE Done(Return(result), store)

\* submitWork keeping the work in the local collection when the request fails.
submitWork_KeepsLocally(net) ==
    LET result == apiRequest(net) IN
    IF result # JNull /\ ~Success(result)
    THEN Done(Return(result),
              [store EXCEPT !["submittedWorks"] = JSONstringify(JArr(<<Work1>>))])
    ELSE Done(Return(result), store)

\* worksApi.submitWork
submitWork(net) == Done(Return(apiRequest(net)), store)

\* messageApi.postMessage
postMessage(net) == Done(Return(apiRequest(net)), store)

\* votingApi.vote
vote(net) == Done(Return(apiRequest(net)), store)

\* userApi.login
userLogin(net) == Done(Return(apiRequest(net)), store)

\* userApi.register
userRegister(net) == Done(Return(apiRequest(net)), store)

\* userApi.getCurrentUser
getCurrentUser(net) == Done(Return(apiRequest(net)), store)

ReadOps == {"getSubmittedWorks", "getFeaturedWorks", "getMessages",
            "getActivities", "getKnowledgeItems"}

WriteOps == {"submitWork", "postMessage", "vote"}

UserOps == {"userLogin", "userRegister", "getCurrentUser"}

\* The localStorage key of a read operation.
KeyOf(op) ==
    CASE op = "getSubmittedWorks" -> "submittedWorks"
      [] op = "getFeaturedWorks" -> "featuredWorks"
      [] op = "getMessages" -> "messages"
      [] op = "getActivities" -> "votingActivities"
      [] op = "getKnowledgeItems" -> "photographyKnowledge"

\* One call of a resource API: the observation records the operation, what
\* the network did, the condition of the storage and the outcome.
Observe(op, net, sf, done) ==
    /\ last' = [op |-> op, net |-> net, sf |-> sf, res |-> done.res]
    /\ store' = done.st
    /\ UNCHANGED <<isAuthenticated, user, dev, mounted, calls>>

GetSubmittedWorks ==
    \E net \in Nets(Payloads), sf \in ReadModes :
        Observe("getSubmittedWorks", net, sf, getSubmittedWorks(net, sf))

GetFeaturedWorks ==
    \E net \in Nets(Payloads), sf \in ReadModes :
        Observe("getFeaturedWorks", net, sf, getFeaturedWorks(net, sf))

GetMessages ==
    \E net \in Nets(Payloads), sf \in ReadModes :
        Observe("getMessages", net, sf, getMessages(net, sf))

GetActivities ==
    \E net \in Nets(Payloads), sf \in ReadModes :
        Observe("getActivities", net, sf, getActivities(net, sf))

GetKnowledgeItems ==
    \E net \in Nets(Payloads), sf \in ReadModes :
        Observe("getKnowledgeItems", net, sf, getKnowledgeItems(net, sf))

SubmitWork ==
    \E net \in Nets(Payloads) :
        Observe("submitWork", net, "ok", submitWork(net))

PostMessage ==
    \E net \in Nets(Payloads) :
        Observe("postMessage", net, "ok", postMessage(net))

Vote ==
    \E net \in Nets(Payloads) :
        Observe("vote", net, "ok", vote(net))

UserLogin ==
    \E net \in Nets(Payloads) :
        Observe("userLogin", net, "ok", userLogin(net))

UserRegister ==
    \E net \in Nets(Payloads) :
        Observe("userRegister", net, "ok", userRegister(net))

GetCurrentUser ==
    \E net \in Nets(Payloads) :
        Observe("getCurrentUser", net, "ok", getCurrentUser(net))

\* What a resource key may hold when the page runs: nothing, the empty
\* string, text that is not JSON, JSON null or a cached collection.
CacheVals == <<Absent, EmptyText, BadText, JSONstringify(JNull),
               JSONstringify(JArr(<<Work1>>)), JSONstringify(JArr(<<Work2, Work1>>))>>

ResourceKeyList == <<"submittedWorks", "featuredWorks", "messages",
                     "votingActivities", "photographyKnowledge">>

\* The cache contents the model starts from: the resource keys hold
\* consecutive values of CacheVals starting at position shift, so that every
\* key sees every value and no two keys ever hold the same one.
CacheAt(shift) ==
    [k \in Keys |->
        IF k \in ResourceKeys
        THEN LET i == CHOOSE j \in 1..Len(ResourceKeyList) : ResourceKeyList[j] = k
             IN CacheVals[((i + shift) % Len(CacheVals)) + 1]
        ELSE Absent]

NoObservation == [op |-> "none"]

InitRAM ==
    /\ isAuthenticated = FALSE
    /\ user = JNull
    /\ \E shift \in 1..Len(CacheVals) : store = CacheAt(shift)
    /\ dev \in BOOLEAN
    /\ mounted = FALSE
    /\ calls = {}
    /\ last = NoObservation

NextRAM ==
    \/ GetSubmittedWorks
    \/ GetFeaturedWorks
    \/ GetMessages
    \/ GetActivities
    \/ GetKnowledgeItems
    \/ SubmitWork
    \/ PostMessage
    \/ Vote
    \/ UserLogin
    \/ UserRegister
    \/ GetCurrentUser

\* The resource APIs called in any order against any cache content.
SpecRAM == InitRAM /\ [][NextRAM]_vars

(***************************************************************************)
(* Users, phone numbers and user names                                     *)
(***************************************************************************)
Digit == {"0", "1", "2", "3", "4", "5", "6", "7", "8", "9"}

\* Tokens of the characters in [一-龥] that the inputs use.
Chinese == {"jie", "ban", "ji", "zhang", "san", "li", "lao", "shi",
            "guan", "yuan"}

AdminPhone == <<"1", "3", "8", "0", "0", "1", "3", "8", "0", "0", "0">>
Phone1 == <<"1", "3", "8", "0", "0", "1", "3", "8", "0", "0", "1">>
Phone2 == <<"1", "5", "9", "0", "0", "1", "3", "8", "0", "0", "2">>
BadPhone == <<"1", "2", "8", "0", "0", "1", "3", "8", "0", "0", "1">>

AdminName == <<"guan", "li", "yuan">>
StudentName == <<"2", "0", "2", "5", "jie", "1", "ban", "zhang", "san">>
TeacherName == <<"li", "lao", "shi">>

\* /^1[3-9]\d{9}$/
phoneRegex(phone) ==
    /\ Len(phone) = 11
    /\ phone[1] = "1"
    /\ phone[2] \in Digit \ {"0", "1", "2"}
    /\ \A i \in 3..11 : phone[i] \in Digit

\* /^202[0-9]届[1-9]\d*[班|級][一-龥]+$/ : the class number ends at
\* position sep - 1, the character class [班|級] matches at sep.
studentNameRegex(username) ==
    \E sep \in 7..(Len(username) - 1) :
        /\ username[1] = "2" /\ username[2] = "0" /\ username[3] = "2"
        /\ username[4] \in Digit
        /\ username[5] = "jie"
        /\ username[6] \in Digit \ {"0"}
        /\ \A i \in 7..(sep - 1) : username[i] \in Digit
        /\ username[sep] \in {"ban", "|", "ji"}
        /\ \A i \in (sep + 1)..Len(username) : username[i] \in Chinese

\* /^[一-龥]+$/
teacherNameRegex(username) ==
    /\ Len(username) >= 1
    /\ \A i \in 1..Len(username) : username[i] \in Chinese

DEFAULT_ADMIN ==
    [id |-> "admin-001", username |-> AdminName, phone |-> AdminPhone,
     role |-> "admin", createdAt |-> "load"]

\* Users the remote may answer with; the second carries a password field.
RemoteUser ==
    [id |-> "srv-1", username |-> StudentName, phone |-> Phone1,
     role |-> "user", userType |-> "student", createdAt |-> "srv"]

RemoteUsers == {RemoteUser, [password |-> "pw2"] @@ RemoteUser}

\* What the network does with a login or register request.
UserNets ==
    {n \in Nets(RemoteUsers) :
        /\ n.k = "status" => n.status = 500
        /\ n.k = "json" => (n.body = JNull \/ Success(n.body) \/ "data" \notin DOMAIN n.body)}

\* Arguments of the login calls.
LoginInputs ==
    {<<AdminPhone, "admin123">>, <<AdminPhone, "pw1">>,
     <<Phone1, "pw1">>, <<Phone1, "pw2">>}

\* Arguments of the register calls: phone, username, password, userType.
RegisterInputs ==
    {<<Phone1, StudentName, "pw1", "student">>,
     <<Phone2, TeacherName, "pw2", "teacher">>,
     <<AdminPhone, StudentName, "pw1", "student">>,
     <<BadPhone, StudentName, "pw1", "student">>,
     <<Phone2, TeacherName, "pw1", "student">>,
     <<Phone2, StudentName, "pw1", "teacher">>}

(***************************************************************************)
(* Session manager (useAuthContext)                                        *)
(***************************************************************************)
\* The roster records with role admin.
Admins(items) == {i \in 1..Len(items) : items[i].role = "admin"}

\* ensureAdminExists appending the admin without looking for it.
ensureAdminExists_NoCheck(sf) ==
    LET users == safeLocalStorageGet("users", JArr(<<>>), sf) IN
    IF ~IsArr(users)
    THEN store
    ELSE safeLocalStorageSet(
             store, "users",
             JArr(Append(users.items, [password |-> "admin123"] @@ DEFAULT_ADMIN)),
             sf)

\* ensureAdminExists storing the admin under another password.
ensureAdminExists_OtherPassword(sf) ==
    LET users == safeLocalStorageGet("users", JArr(<<>>), sf) IN
    IF ~IsArr(users)
    THEN store
    ELSE IF \E i \in 1..Len(users.items) :
                users.items[i].role = "admin"
                /\ users.items[i].phone = DEFAULT_ADMIN.phone
         THEN store
         ELSE safeLocalStorageSet(
                  store, "users",
                  JArr(Append(users.items, [password |-> "admin"] @@ DEFAULT_ADMIN)),
                  sf)

ensureAdminExists(sf) ==
    LET users == safeLocalStorageGet("users", JArr(<<>>), sf) IN
    IF ~IsArr(users)
    THEN store
    ELSE IF \E i \in 1..Len(users.items) :
                users.items[i].role = "admin"
                /\ users.items[i].phone = DEFAULT_ADMIN.phone
         THEN store
         ELSE safeLocalStorageSet(
                  store, "users",
                  JArr(Append(users.items, [password |-> "admin123"] @@ DEFAULT_ADMIN)),
                  sf)

\* What a handler of the session manager did: its outcome, the session and
\* localStorage when it finished, whether it took the remote or the local
\* path, and whether it read the roster.
Session(res, auth, usr, st, via, consulted) ==
    [res |-> res, auth |-> auth, user |-> usr, st |-> st,
     via |-> via, consulted |-> consulted]

\* The mount effect returning from its catch block, before ensureAdminExists.
initialize_StopsOnBadUser(sf) ==
    LET savedUser == store["currentUser"] IN
    IF sf = "down"
    THEN Session(Throw("DOMException"), FALSE, JNull, store, "none", FALSE)
    ELSE IF ~ItemTruthy(savedUser)
         THEN Session(Return(TRUE), FALSE, JNull,
                      ensureAdminExists(sf), "none", TRUE)
    ELSE IF JSONparseThrows(savedUser)
         THEN Session(Return(TRUE), FALSE, JNull, store, "none", FALSE)
         ELSE Session(Return(TRUE), TRUE, JSONparse(savedUser),
                      ensureAdminExists(sf), "none", TRUE)

\* The mount effect: restore the saved session, then ensureAdminExists.
\* A page load starts from useState's initial values.
initialize(sf) ==
    LET savedUser == store["currentUser"] IN
    IF sf = "down"
    THEN Session(Throw("DOMException"), FALSE, JNull, store, "none", FALSE)
    ELSE IF ItemTruthy(savedUser) /\ ~JSONparseThrows(savedUser)
         THEN Session(Return(TRUE), TRUE, JSONparse(savedUser),
                      ensureAdminExists(sf), "none", TRUE)
         ELSE Session(Return(TRUE), FALSE, JNull,
                      ensureAdminExists(sf), "none", TRUE)

\* users.find matching on the phone alone.
FindUser_PhoneOnly(items, phone, password) ==
    LET hits == {i \in 1..Len(items) : items[i].phone = phone}
    IN IF hits = {} THEN 0 ELSE CHOOSE i \in hits : \A j \in hits : i <= j

\* users.find(u => u.phone === phone && u.password === password): the first
\* roster record with this phone and password, or 0.
FindUser(items, phone, password) ==
    LET hits == {i \in 1..Len(items) :
                    /\ items[i].phone = phone
                    /\ "password" \in DOMAIN items[i]
                    /\ items[i].password = password}
    IN IF hits = {} THEN 0 ELSE CHOOSE i \in hits : \A j \in hits : i <= j

\* The test reading a property the envelope does not have.
RemoteSucceeded_WrongField(result) ==
    Success(result) /\ "user" \in DOMAIN result

\* result.success && result.data
RemoteSucceeded(result) == Success(result) /\ HasData(result)

\* login signing the user out when it fails.
login_SignsOutOnFailure(phone, password, net, sf) ==
    LET result == userLogin(net).res.v
        failed(consulted) ==
            Session(Return(FALSE), FALSE, JNull,
                    [store EXCEPT !["currentUser"] = Absent], "none", consulted)
    IN
    IF result = JNull
    THEN failed(FALSE)
    ELSE IF RemoteSucceeded(result)
    THEN Session(Return(TRUE), TRUE, result.data,
                 safeLocalStorageSet(store, "currentUser", result.data, sf),
                 "remote", FALSE)
    ELSE LET users == safeLocalStorageGet("users", JArr(<<>>), sf) IN
         IF ~IsArr(users)
         THEN failed(TRUE)
         ELSE LET found == FindUser(users.items, phone, password) IN
              IF found = 0
              THEN failed(TRUE)
              ELSE LET userWithoutPassword == Without(users.items[found], "password")
                   IN Session(Return(TRUE), TRUE, userWithoutPassword,
                              safeLocalStorageSet(store, "currentUser",
                                                  userWithoutPassword, sf),
                              "local", TRUE)

\* login(phone, password), from the answer of userApi.login on.
login(phone, password, net, sf) ==
    LET result == userLogin(net).res.v IN
    IF result = JNull
    THEN Session(Return(FALSE), isAuthenticated, user, store, "none", FALSE)
    ELSE IF RemoteSucceeded(result)
    THEN Session(Return(TRUE), TRUE, result.data,
                 safeLocalStorageSet(store, "currentUser", result.data, sf),
                 "remote", FALSE)
    ELSE LET users == safeLocalStorageGet("users", JArr(<<>>), sf) IN
         IF ~IsArr(users)
         THEN Session(Return(FALSE), isAuthenticated, user, store, "none", TRUE)
         ELSE LET found == FindUser(users.items, phone, password) IN
              IF found = 0
              THEN Session(Return(FALSE), isAuthenticated, user, store, "none", TRUE)
              ELSE LET userWithoutPassword == Without(users.items[found], "password")
                   IN Session(Return(TRUE), TRUE, userWithoutPassword,
                              safeLocalStorageSet(store, "currentUser",
                                                  userWithoutPassword, sf),
                              "local", TRUE)

\* A handler signing the user out before it raises.
Raise_ClearsSession(e, consulted) ==
    Session(Throw(e), FALSE, JNull,
            [store EXCEPT !["currentUser"] = Absent], "none", consulted)

\* A handler that raised: nothing was set before the error.
Raise(e, consulted) ==
    Session(Throw(e), isAuthenticated, user, store, "none", consulted)

\* The duplicate check left out.
PhoneTaken_Never(users, phone) == FALSE

\* users.some(u => u.phone === phone)
PhoneTaken(users, phone) == \E i \in 1..Len(users) : users[i].phone = phone

\* The roster replaced by the new record.
Pushed_OnlyNew(users, newUser) == <<newUser>>

\* The new record written over the record registered last (the roster as it
\* was read before that registration, plus the new record).
Pushed_ReplacesLast(users, newUser) ==
    IF Len(users) > 1
    THEN Append(SubSeq(users, 1, Len(users) - 1), newUser)
    ELSE Append(users, newUser)

\* users.push(newUser)
Pushed(users, newUser) == Append(users, newUser)

\* The new record adopted with its password.
StripPassword_Keeps(newUser) == newUser

\* const { password: _, ...userWithoutPassword } = newUser
StripPassword(newUser) == Without(newUser, "password")

\* The local branch of register once the user name and the phone passed.
registerLocally(phone, username, password, userType, sf) ==
    LET raw == IF ItemTruthy(store["users"])
               THEN store["users"]
               ELSE JSONstringify(JArr(<<>>))
    IN
    IF sf = "down" THEN Raise("DOMException", FALSE)
    ELSE IF JSONparseThrows(raw) THEN Raise("SyntaxError", TRUE)
    ELSE IF ~IsArr(JSONparse(raw)) THEN Raise("TypeError", TRUE)
    ELSE LET users == JSONparse(raw).items
             newUser == [id |-> "user-now", username |-> username,
                         phone |-> phone, role |-> "user",
                         userType |-> userType, password |-> password,
                         createdAt |-> "now"]
             userWithoutPassword == StripPassword(newUser)
         IN
         IF PhoneTaken(users, phone)
         THEN Raise("DuplicatePhone", TRUE)
         ELSE IF sf = "full" THEN Raise("DOMException", TRUE)
         ELSE Session(Return(TRUE), TRUE, userWithoutPassword,
                      [store EXCEPT
                          !["users"] = JSONstringify(JArr(Pushed(users, newUser))),
                          !["currentUser"] = JSONstringify(userWithoutPassword)],
                      "local", TRUE)

\* register(phone, username, password, userType), from the answer of
\* userApi.register on.  Every Error caught is raised again.
register(phone, username, password, userType, net, sf) ==
    LET result == userRegister(net).res.v IN
    IF result = JNull
    THEN Raise("TypeError", FALSE)
    ELSE IF RemoteSucceeded(result)
    THEN LET userWithoutPassword == Without(result.data, "password")
         IN Session(Return(TRUE), TRUE, userWithoutPassword,
                    safeLocalStorageSet(store, "currentUser", userWithoutPassword, sf),
                    "remote", FALSE)
    ELSE IF userType = "student" /\ ~studentNameRegex(username)
    THEN Raise("BadStudentName", FALSE)
    ELSE IF userType # "student" /\ ~teacherNameRegex(username)
    THEN Raise("BadTeacherName", FALSE)
    ELSE IF ~phoneRegex(phone)
    THEN Raise("BadPhone", FALSE)
    ELSE registerLocally(phone, username, password, userType, sf)

\* logout emptying localStorage (localStorage.clear()).
logout_ClearsStore(sf) ==
    IF sf = "down"
    THEN Session(Throw("DOMException"), FALSE, JNull, store, "none", FALSE)
    ELSE Session(Return(TRUE), FALSE, JNull, [k \in Keys |-> Absent], "none", FALSE)

\* logout leaving the currentUser key in place.
logout_KeepsKey(sf) ==
    IF sf = "down"
    THEN Session(Throw("DOMException"), FALSE, JNull, store, "none", FALSE)
    ELSE Session(Return(TRUE), FALSE, JNull, store, "none", FALSE)

\* logout without setUser(null).
logout_KeepsUser(sf) ==
    IF sf = "down"
    THEN Session(Throw("DOMException"), FALSE, user, store, "none", FALSE)
    ELSE Session(Return(TRUE), FALSE, user,
                 [store EXCEPT !["currentUser"] = Absent], "none", FALSE)

\* logout(): removeItem throws when the storage is disabled.
logout(sf) ==
    IF sf = "down"
    THEN Session(Throw("DOMException"), FALSE, JNull, store, "none", FALSE)
    ELSE Session(Return(TRUE), FALSE, JNull,
                 [store EXCEPT !["currentUser"] = Absent], "none", FALSE)

\* isAdmin(): user?.role === 'admin'
isAdmin == user # JNull /\ "role" \in DOMAIN user /\ user.role = "admin"

\* The roster as the next read of the users key decodes it.
Roster == safeLocalStorageGet("users", JArr(<<>>), "ok")

(***************************************************************************)
(* Steps of the session manager.  login and register suspend at the await  *)
(* of the remote call (LoginCall, RegisterCall) and run to their end when   *)
(* it settles (Login, Register); the other handlers are synchronous.        *)
(***************************************************************************)
\* The session and the store after a handler, and the observation of it.
Apply(obs, done) ==
    /\ isAuthenticated' = done.auth
    /\ user' = done.user
    /\ store' = done.st
    /\ last' = obs @@ [res |-> done.res, via |-> done.via,
                       consulted |-> done.consulted]
    /\ UNCHANGED dev

Initialize(modes) ==
    \E sf \in modes :
        /\ Apply([op |-> "initialize", sf |-> sf], initialize(sf))
        /\ mounted' = TRUE
        /\ calls' = {}

LoginCall(inputs) ==
    \E in \in inputs :
        /\ mounted
        /\ Cardinality(calls) < MaxCalls
        /\ calls' = calls \cup {[op |-> "login", phone |-> in[1], password |-> in[2]]}
        /\ last' = [op |-> "loginCall"]
        /\ UNCHANGED <<isAuthenticated, user, store, dev, mounted>>

Login(nets, modes) ==
    \E c \in calls, net \in nets, sf \in modes :
        /\ c.op = "login"
        /\ Apply([op |-> "login", phone |-> c.phone, password |-> c.password,
                  net |-> net, sf |-> sf],
                 login(c.phone, c.password, net, sf))
        /\ calls' = calls \ {c}
        /\ UNCHANGED mounted

RegisterCall(inputs) ==
    \E in \in inputs :
        /\ mounted
        /\ Cardinality(calls) < MaxCalls
        /\ calls' = calls \cup {[op |-> "register", phone |-> in[1],
                                 username |-> in[2], password |-> in[3],
                                 userType |-> in[4]]}
        /\ last' = [op |-> "registerCall"]
        /\ UNCHANGED <<isAuthenticated, user, store, dev, mounted>>

Register(nets, modes) ==
    \E c \in calls, net \in nets, sf \in modes :
        /\ c.op = "register"
        /\ Apply([op |-> "register", phone |-> c.phone, username |-> c.username,
                  password |-> c.password, userType |-> c.userType,
                  net |-> net, sf |-> sf],
                 register(c.phone, c.username, c.password, c.userType, net, sf))
        /\ calls' = calls \ {c}
        /\ UNCHANGED mounted

Logout(modes) ==
    \E sf \in modes :
        /\ mounted
        /\ Apply([op |-> "logout", sf |-> sf], logout(sf))
        /\ UNCHANGED <<mounted, calls>>

\* A first visit: nothing of the session manager is stored yet.
Init ==
    /\ isAuthenticated = FALSE
    /\ user = JNull
    /\ store = CacheAt(1)
    /\ dev = FALSE
    /\ mounted = FALSE
    /\ calls = {}
    /\ last = NoObservation

Next ==
    \/ Initialize({"ok"})
    \/ LoginCall(LoginInputs)
    \/ Login(UserNets, {"ok"})
    \/ RegisterCall(RegisterInputs)
    \/ Register(UserNets, {"ok"})
    \/ Logout({"ok"})

\* The session manager over a working localStorage, the remote answering
\* or failing in every way.
Spec == Init /\ [][Next]_vars

\* A record of the roster deleted by hand (the browser's storage panel).
DeleteRecord ==
    /\ mounted
    /\ IsArr(Roster)
    /\ \E i \in 1..Len(Roster.items) :
           store' = [store EXCEPT !["users"] =
                        JSONstringify(JArr(SubSeq(Roster.items, 1, i - 1)
                                           \o SubSeq(Roster.items, i + 1,
                                                     Len(Roster.items))))]
    /\ last' = [op |-> "deleteRecord"]
    /\ UNCHANGED <<isAuthenticated, user, dev, mounted, calls>>

\* The remote unreachable, or answering a registration with failure.
OfflineNets == {[k |-> "reject"],
                [k |-> "json", body |-> [success |-> FALSE, error |-> ServerError]]}

NextHeal ==
    \/ Initialize({"ok"})
    \/ RegisterCall(RegisterInputs)
    \/ Register(OfflineNets, {"ok"})
    \/ Logout({"ok"})
    \/ DeleteRecord

\* Page loads and local registrations with roster records deleted by hand
\* in between.
SpecHeal == Init /\ [][NextHeal]_vars

\* User names tried against the two format checks: the separator | or U+7D1A
\* in place of U+73ED, a class number of two digits, a class number 0, a
\* year outside 202x, no name after the separator, a name in Latin letters.
PipeName == <<"2", "0", "2", "5", "jie", "1", "|", "zhang", "san">>
JiName == <<"2", "0", "2", "5", "jie", "1", "ji", "zhang", "san">>
LongClassName == <<"2", "0", "2", "5", "jie", "1", "2", "ban", "zhang", "san">>
ZeroClassName == <<"2", "0", "2", "5", "jie", "0", "ban", "zhang", "san">>
OldYearName == <<"2", "0", "1", "5", "jie", "1", "ban", "zhang", "san">>
NoGivenName == <<"2", "0", "2", "5", "jie", "1", "ban">>
LatinName == <<"2", "0", "2", "5", "jie", "1", "ban", "z", "s">>

Names == {StudentName, TeacherName, PipeName, JiName, LongClassName,
          ZeroClassName, OldYearName, NoGivenName, LatinName, <<>>}

\* Every name registered as a student and as a teacher.
NameInputs ==
    {<<Phone1, n, "pw1", t>> : n \in Names, t \in {"student", "teacher"}}

NextNames ==
    \/ Initialize({"ok"})
    \/ RegisterCall(NameInputs)
    \/ Register(OfflineNets, {"ok"})
    \/ Logout({"ok"})

\* Local registrations under user names of every shape.
SpecNames == Init /\ [][NextNames]_vars

\* register called: as RegisterCall, the suspended call also remembering how
\* many records the roster held when it was issued (an observation only).
RegisterCallSeen(inputs) ==
    \E in \in inputs :
        /\ mounted
        /\ Cardinality(calls) < MaxCalls
        /\ calls' = calls \cup {[op |-> "register", phone |-> in[1],
                                 username |-> in[2], password |-> in[3],
                                 userType |-> in[4],
                                 seen |-> Len(Roster.items)]}
        /\ last' = [op |-> "registerCall"]
        /\ UNCHANGED <<isAuthenticated, user, store, dev, mounted>>

\* The remote call of a register settles: as Register, the observation
\* carrying what the call remembered.
RegisterSeen(nets, modes) ==
    \E c \in calls, net \in nets, sf \in modes :
        /\ c.op = "register"
        /\ Apply([op |-> "register", phone |-> c.phone, username |-> c.username,
                  password |-> c.password, userType |-> c.userType,
                  seen |-> c.seen, net |-> net, sf |-> sf],
                 register(c.phone, c.username, c.password, c.userType, net, sf))
        /\ calls' = calls \ {c}
        /\ UNCHANGED mounted

NextRace ==
    \/ Initialize({"ok"})
    \/ RegisterCallSeen(RegisterInputs)
    \/ RegisterSeen(OfflineNets, {"ok"})
    \/ Logout({"ok"})

\* Registrations in flight together, their remote calls failing in any order.
SpecRace == Init /\ [][NextRace]_vars

\* What the users and currentUser keys may hold when the page loads after
\* the storage was damaged.
DamagedVals == {Absent, BadText, JSONstringify(JNull)}

InitFault ==
    /\ isAuthenticated = FALSE
    /\ user = JNull
    /\ \E u \in DamagedVals, c \in DamagedVals :
           store = [CacheAt(1) EXCEPT !["users"] = u, !["currentUser"] = c]
    /\ dev = FALSE
    /\ mounted = FALSE
    /\ calls = {}
    /\ last = NoObservation

\* The calls and the answers of the remote tried against a faulty storage.
FaultLoginInputs == {<<Phone1, "pw1">>}

FaultRegisterInputs ==
    {<<Phone1, StudentName, "pw1", "student">>,
     <<BadPhone, StudentName, "pw1", "student">>}

FaultNets == {[k |-> "reject"],
              [k |-> "json", body |-> [success |-> FALSE, error |-> ServerError]],
              [k |-> "json", body |-> [success |-> TRUE, data |-> RemoteUser]]}

NextFault ==
    \/ Initialize(StoreModes)
    \/ LoginCall(FaultLoginInputs)
    \/ Login(FaultNets, StoreModes)
    \/ RegisterCall(FaultRegisterInputs)
    \/ Register(FaultNets, StoreModes)
    \/ Logout(StoreModes)

\* The session manager over a localStorage that may be damaged, disabled or
\* full.
SpecFault == InitFault /\ [][NextFault]_vars

\* login called: as LoginCall, the suspended call also carrying whether a
\* logout has run since it was issued (an observation only).
LoginCallTracked(inputs) ==
    \E in \in inputs :
        /\ mounted
        /\ Cardinality(calls) < MaxCalls
        /\ calls' = calls \cup {[op |-> "login", phone |-> in[1],
                                 password |-> in[2], stale |-> FALSE]}
        /\ last' = [op |-> "loginCall"]
        /\ UNCHANGED <<isAuthenticated, user, store, dev, mounted>>

\* The remote call of a login settles: as Login, nothing cancels the call.
LoginTracked(nets, modes) ==
    \E c \in calls, net \in nets, sf \in modes :
        /\ c.op = "login"
        /\ Apply([op |-> "login", phone |-> c.phone, password |-> c.password,
                  stale |-> c.stale, net |-> net, sf |-> sf],
                 login(c.phone, c.password, net, sf))
        /\ calls' = calls \ {c}
        /\ UNCHANGED mounted

RegisterCallTracked(inputs) ==
    \E in \in inputs :
        /\ mounted
        /\ Cardinality(calls) < MaxCalls
        /\ calls' = calls \cup {[op |-> "register", phone |-> in[1],
                                 username |-> in[2], password |-> in[3],
                                 userType |-> in[4], stale |-> FALSE]}
        /\ last' = [op |-> "registerCall"]
        /\ UNCHANGED <<isAuthenticated, user, store, dev, mounted>>

RegisterTracked(nets, modes) ==
    \E c \in calls, net \in nets, sf \in modes :
        /\ c.op = "register"
        /\ Apply([op |-> "register", phone |-> c.phone, username |-> c.username,
                  password |-> c.password, userType |-> c.userType,
                  stale |-> c.stale, net |-> net, sf |-> sf],
                 register(c.phone, c.username, c.password, c.userType, net, sf))
        /\ calls' = calls \ {c}
        /\ UNCHANGED mounted

\* logout(): the suspended calls stay suspended; they are noted as issued
\* before a logout.
LogoutTracked(modes) ==
    \E sf \in modes :
        /\ mounted
        /\ Apply([op |-> "logout", sf |-> sf], logout(sf))
        /\ calls' = {[c EXCEPT !.stale = TRUE] : c \in calls}
        /\ UNCHANGED mounted

\* Arguments of the login calls made around a logout.
TrackedLoginInputs == {<<Phone1, "pw1">>, <<AdminPhone, "admin123">>}

NextTracked ==
    \/ Initialize({"ok"})
    \/ LoginCallTracked(TrackedLoginInputs)
    \/ LoginTracked(FaultNets, {"ok"})
    \/ RegisterCallTracked(FaultRegisterInputs)
    \/ RegisterTracked(FaultNets, {"ok"})
    \/ LogoutTracked({"ok"})

\* Logouts while login and register calls are in flight.
SpecTracked == Init /\ [][NextTracked]_vars

(***************************************************************************)
(* Properties of the resource APIs (checked under SpecRAM)                 *)
(***************************************************************************)
\* The request did not succeed: fetch rejected, the status was not 2xx, the
\* body was not JSON, or the server answered with success false.
NetFails(net) ==
    net.k # "json" \/ (net.body # JNull /\ ~Success(net.body))

\* The envelope invariant: success implies data defined, failure implies
\* data undefined.
EnvelopeOk(e) ==
    /\ "success" \in DOMAIN e
    /\ e.success => "data" \in DOMAIN e
    /\ ~e.success => "data" \notin DOMAIN e

\* C1: when the remote call of a read operation fails, the operation returns
\* {success: true, data: <the value cached under the resource's own key>} if
\* the key holds a cached value (the JSON text of a value, in a readable
\* store), and the failure envelope of the remote call, unchanged, if the
\* key holds nothing.
C1_ReadFallback ==
    (last.op \in ReadOps /\ NetFails(last.net)) =>
        LET saved == store[KeyOf(last.op)] IN
        /\ (last.sf = "ok" /\ saved.t = "json") =>
               last.res = Return([success |-> TRUE, data |-> saved.v])
        /\ saved = Absent => last.res = Return(apiRequest(last.net))

\* A read served from the cache after a failed request.
C1_Witness ==
    /\ last.op = "getFeaturedWorks"
    /\ NetFails(last.net)
    /\ store["featuredWorks"] = JSONstringify(JArr(<<Work2, Work1>>))
    /\ last.res = Return([success |-> TRUE, data |-> JArr(<<Work2, Work1>>)])

\* C2: when the remote call of submitWork, postMessage or vote fails, the
\* operation returns an envelope with success false and no localStorage key
\* is changed.
C2_WriteAsymmetry ==
    [][(last'.op \in WriteOps /\ NetFails(last'.net)) =>
          /\ last'.res.t = "return"
          /\ "success" \in DOMAIN last'.res.v
          /\ last'.res.v.success = FALSE
          /\ store' = store]_vars

\* A failed write against a store that holds cached works.
C2_Witness ==
    /\ last.op = "submitWork"
    /\ last.net = [k |-> "reject"]
    /\ last.res.v.success = FALSE
    /\ store["submittedWorks"] = JSONstringify(JArr(<<Work2, Work1>>))

\* The server's response, when there is one, satisfies the envelope invariant.
ServerConforms(net) == net.k = "json" => EnvelopeOk(net.body)

\* The value returned by the last resource API call, if it returned.
Returned == last.op \in ReadOps \cup WriteOps \cup UserOps /\ last.res.t = "return"

\* C10 as stated: every envelope returned by a resource API satisfies the
\* envelope invariant, for every server response and cache content.
C10_EnvelopeAlways == Returned => EnvelopeOk(last.res.v)

\* C10 as amended: every envelope returned by a resource API satisfies the
\* envelope invariant for every cache content, provided the body the server
\* answered with (if it answered) satisfies it; the envelopes built by the
\* client itself always do.
C10_EnvelopeIfServerConforms ==
    (Returned /\ ServerConforms(last.net)) => EnvelopeOk(last.res.v)

\* A fallback envelope built by the client from the cache.
C10_Witness ==
    /\ last.op = "getMessages"
    /\ last.net.k = "status"
    /\ store["messages"] = JSONstringify(JNull)
    /\ last.res = Return([success |-> TRUE, data |-> JNull])

\* A call of any resource API.
ApiCall == last.op \in ReadOps \cup WriteOps \cup UserOps

\* The server answered 2xx with the JSON document null.
NullBody(net) == net.k = "json" /\ net.body = JNull

\* The last call returned an envelope.
ReturnedEnvelope ==
    /\ last.res.t = "return"
    /\ last.res.v # JNull
    /\ "success" \in DOMAIN last.res.v

\* C11 as stated: apiRequest and every resource API built on it complete by
\* returning an envelope and never raise, whatever the network does and
\* whatever localStorage holds or does on the fallback read.
C11_NoThrowWhateverNetwork == ApiCall => ReturnedEnvelope

\* C11 as amended: apiRequest and every resource API built on it complete
\* by returning an envelope and never raise, for a rejected fetch, a non-2xx
\* status, a body that is not JSON and a JSON body that is an object,
\* whatever localStorage holds or does on the fallback read (missing key,
\* malformed JSON, throwing call); a 2xx answer whose body is JSON null is
\* returned as null by apiRequest and makes the read operations raise.
C11_NoThrow ==
    /\ (ApiCall /\ ~NullBody(last.net)) => ReturnedEnvelope
    /\ (last.op \in ReadOps /\ NullBody(last.net)) => last.res = Throw("TypeError")
    /\ (last.op \in WriteOps \cup UserOps /\ NullBody(last.net)) =>
           last.res = Return(JNull)

\* A read whose request was rejected and whose cache read threw, returning
\* the failure envelope.
C11_Witness ==
    /\ last.op = "getActivities"
    /\ last.net = [k |-> "reject"]
    /\ last.sf = "down"
    /\ store["votingActivities"].t = "json"
    /\ last.res = Return(apiRequest(last.net))

\* C14 as stated: on a non-2xx status apiRequest returns {success: false,
\* error: <a message naming that status>} in every configuration.
C14_StatusAlwaysNamed ==
    (last.op \in WriteOps \cup UserOps /\ last.net.k = "status") =>
        /\ ReturnedEnvelope
        /\ last.res.v.success = FALSE
        /\ "status" \in DOMAIN last.res.v.error
        /\ last.res.v.error.status = last.net.status

\* C14 as amended: on a non-2xx status apiRequest returns {success: false,
\* error: <message>} without data; in a production build the message names
\* the status received, in a development build (import.meta.env.DEV) it is
\* the fixed text used for every failure and does not name the status.
C14_StatusNamedInProduction ==
    (last.op \in WriteOps \cup UserOps /\ last.net.k = "status") =>
        /\ ReturnedEnvelope
        /\ last.res.v.success = FALSE
        /\ "data" \notin DOMAIN last.res.v
        /\ ~dev => last.res.v.error =
                       [m |-> "API request failed", status |-> last.net.status]
        /\ dev => last.res.v.error = DevMessage

\* A 401 answered to a vote in a production build.
C14_Witness ==
    /\ last.op = "vote"
    /\ last.net = [k |-> "status", status |-> 401]
    /\ ~dev
    /\ last.res.v.error.status = 401

\* C18: a read operation leaves every localStorage key as it was, whether
\* the request succeeds or fails, and returns a successful answer of the
\* remote as it is, without copying it into the cache.
C18_ReadsDoNotWrite ==
    [][last'.op \in ReadOps =>
          /\ store' = store
          /\ (last'.net.k = "json" /\ last'.net.body # JNull
                 /\ Success(last'.net.body)) =>
                 last'.res = Return(last'.net.body)]_vars

\* A successful read of knowledge items that differ from the cached ones.
C18_Witness ==
    /\ last.op = "getKnowledgeItems"
    /\ last.res = Return([success |-> TRUE, data |-> JArr(<<Work2, Work1>>)])
    /\ store["photographyKnowledge"] = JSONstringify(JArr(<<Work1>>))

(***************************************************************************)
(* Properties of the session manager                                       *)
(***************************************************************************)
\* The remote answered the call with success and a user.
RemoteAccepts(net) ==
    net.k = "json" /\ net.body # JNull /\ Success(net.body) /\ HasData(net.body)

\* The roster holds a record with exactly this phone and password.
InRoster(phone, password) ==
    /\ IsArr(Roster)
    /\ \E i \in 1..Len(Roster.items) :
           /\ Roster.items[i].phone = phone
           /\ "password" \in DOMAIN Roster.items[i]
           /\ Roster.items[i].password = password

\* The roster holds a record with this phone.
PhoneInRoster(phone) ==
    IsArr(Roster) /\ \E i \in 1..Len(Roster.items) : Roster.items[i].phone = phone

\* Login accepted by the remote: true, the remote's user adopted, the roster
\* not read.
RemoteLoginWins ==
    (last.op = "login" /\ RemoteAccepts(last.net)) =>
        /\ last.res = Return(TRUE)
        /\ last.via = "remote"
        /\ user = last.net.body.data
        /\ ~last.consulted

\* The remote was reached and answered with a well-formed envelope: success
\* with a user, or failure without data.
RemoteAnswered(net) ==
    /\ net.k = "json"
    /\ EnvelopeOk(net.body)
    /\ net.body.success => HasData(net.body)

\* C3 as stated: a login the remote accepts returns true and adopts the
\* remote's user without consulting the roster; a login succeeds through the
\* local fallback only when the remote call was made to fail (every fault
\* of the transport and every malformed answer counted as such), never when
\* the remote was reached and answered.
C3_LocalOnlyWhenMadeToFail ==
    /\ RemoteLoginWins
    /\ (last.op = "login" /\ last.via = "local") => ~RemoteAnswered(last.net)

\* C3 as amended: a login the remote accepts returns true and adopts the
\* remote's user without consulting the roster; a login with a password that
\* only the roster knows returns true through the local fallback whenever
\* the remote call does not succeed, when it is made to fail and equally
\* when the remote is reachable and refuses, and only when the remote did
\* not answer with success and a user.
C3_LoginPrecedence ==
    /\ RemoteLoginWins
    /\ (last.op = "login" /\ last.via = "local") =>
           (~RemoteAccepts(last.net) /\ InRoster(last.phone, last.password))
    /\ (last.op = "login" /\ NetFails(last.net)
           /\ InRoster(last.phone, last.password)) =>
           (last.via = "local" /\ last.res = Return(TRUE))

\* The remote accepted a password that differs from the roster's for the
\* same phone.
C3_Witness ==
    /\ last.op = "login"
    /\ last.via = "remote"
    /\ last.phone = Phone1 /\ last.password = "pw2"
    /\ InRoster(Phone1, "pw1")
    /\ ~InRoster(Phone1, "pw2")
    /\ user = RemoteUser

\* C4: login returns true only if the remote accepted the call with a user
\* or the roster holds a record with exactly the phone and the password
\* given; otherwise it returns false (it never raises).
C4_LoginSoundness ==
    last.op = "login" =>
        /\ last.res \in {Return(TRUE), Return(FALSE)}
        /\ last.res = Return(TRUE) =>
               (RemoteAccepts(last.net) \/ InRoster(last.phone, last.password))

\* A wrong password for a phone of the roster, refused with false.
C4_Witness ==
    /\ last.op = "login"
    /\ last.res = Return(FALSE)
    /\ last.phone = Phone1 /\ last.password = "pw2"
    /\ InRoster(Phone1, "pw1")

\* C5: after every call of ensureAdminExists (every page load), whether the
\* roster was empty, already held the admin or had lost it by hand, the
\* roster holds exactly one admin record.
C5_AdminSelfHealing ==
    last.op = "initialize" =>
        IsArr(Roster) /\ Cardinality(Admins(Roster.items)) = 1

\* The admin put back behind a user that registered before it was deleted.
C5_Witness ==
    /\ last.op = "initialize"
    /\ Len(Roster.items) = 2
    /\ Roster.items[1].role = "user"
    /\ Roster.items[2] = [password |-> "admin123"] @@ DEFAULT_ADMIN

\* C6: once the page has loaded, in every state reached by page loads,
\* logins, registrations and logouts the roster holds exactly one record with
\* role admin.
C6_OneAdmin ==
    mounted => IsArr(Roster) /\ Cardinality(Admins(Roster.items)) = 1

\* Two users registered beside the admin, then a logout.
C6_Witness ==
    /\ last.op = "logout"
    /\ Len(Roster.items) = 3
    /\ Cardinality(Admins(Roster.items)) = 1

\* The record register creates from its arguments.
NewRecord(c) ==
    [id |-> "user-now", username |-> c.username, phone |-> c.phone,
     role |-> "user", userType |-> c.userType, password |-> c.password,
     createdAt |-> "now"]

\* The user name passes the check of its user type.
NameAccepted(c) ==
    IF c.userType = "student"
    THEN studentNameRegex(c.username)
    ELSE teacherNameRegex(c.username)

\* C7: when the remote registration fails and the user name, the phone
\* format and the phone-not-in-roster checks pass, register returns true,
\* appends exactly one record (role user, the phone, user name, password and
\* user type given) to the stored roster, and the session is authenticated
\* with that record minus its password, which is also what currentUser holds.
C7_LocalRegistration ==
    [][(/\ last'.op = "register"
        /\ NetFails(last'.net)
        /\ NameAccepted(last')
        /\ phoneRegex(last'.phone)
        /\ ~PhoneInRoster(last'.phone))
       =>
       (/\ last'.res = Return(TRUE)
        /\ store'["users"] = JSONstringify(JArr(Append(Roster.items, NewRecord(last'))))
        /\ isAuthenticated'
        /\ user' = Without(NewRecord(last'), "password")
        /\ "password" \notin DOMAIN user'
        /\ store'["currentUser"] = JSONstringify(user'))]_vars

\* A teacher registered locally behind the admin and a student.
C7_Witness ==
    /\ last.op = "register"
    /\ last.via = "local"
    /\ last.userType = "teacher"
    /\ Len(Roster.items) = 3
    /\ Roster.items[3].phone = Phone2
    /\ user.phone = Phone2

\* No two records of the roster have the same phone.
UniquePhones ==
    IsArr(Roster) =>
        \A i, j \in 1..Len(Roster.items) :
            Roster.items[i].phone = Roster.items[j].phone => i = j

\* A register that took the local branch: the remote answered, but not with
\* success and a user, or the call failed.
LocalFallback(obs) ==
    /\ obs.op = "register"
    /\ obs.net.k = "json" => obs.net.body # JNull
    /\ ~RemoteAccepts(obs.net)

\* C8 as stated: a local-fallback register whose phone already occurs in the
\* roster raises the duplicate-phone error and appends nothing; after every
\* step no two records of the roster have the same phone.
C8_DuplicateAlwaysReported ==
    [][/\ UniquePhones'
       /\ (LocalFallback(last') /\ PhoneInRoster(last'.phone)) =>
              (/\ last'.res = Throw("DuplicatePhone")
               /\ store'["users"] = store["users"])]_vars

\* C8 as amended: a local-fallback register whose phone already occurs in
\* the roster raises an error and appends nothing, the error being the
\* duplicate-phone error when the user name and the phone pass the format
\* checks (a failed format check raises its own error first); after every
\* step no two records of the roster have the same phone.
C8_PhoneUniqueness ==
    [][/\ UniquePhones'
       /\ (LocalFallback(last') /\ PhoneInRoster(last'.phone)) =>
              (/\ last'.res.t = "throw"
               /\ store'["users"] = store["users"]
               /\ (NameAccepted(last') /\ phoneRegex(last'.phone)) =>
                      last'.res = Throw("DuplicatePhone"))]_vars

\* The admin's phone refused as a duplicate.
C8_Witness ==
    /\ last.op = "register"
    /\ last.phone = AdminPhone
    /\ last.res = Throw("DuplicatePhone")
    /\ Len(Roster.items) = 2

ValidationErrors ==
    {"BadStudentName", "BadTeacherName", "BadPhone", "DuplicatePhone"}

\* C9: login never raises, and register raises only a validation error (bad
\* user name, bad phone, duplicate phone), whatever the network, the server
\* and localStorage do.
C9_ExceptionChannel ==
    /\ last.op = "login" => last.res.t = "return"
    /\ (last.op = "register" /\ last.res.t = "throw") =>
           last.res.e \in ValidationErrors

\* C12: logout() sets isAuthenticated to false and user to null, removes the
\* currentUser key, and leaves the users key and every resource cache key
\* as they were.
C12_LogoutFrame ==
    [][last'.op = "logout" =>
          /\ isAuthenticated' = FALSE
          /\ user' = JNull
          /\ store'["currentUser"] = Absent
          /\ \A k \in Keys \ {"currentUser"} : store'[k] = store[k]]_vars

\* A logout after a registration: the roster keeps the admin and the user,
\* the caches keep their content.
C12_Witness ==
    /\ last.op = "logout"
    /\ ~isAuthenticated
    /\ store["currentUser"] = Absent
    /\ Len(Roster.items) = 2
    /\ store["messages"] = CacheAt(1)["messages"]
    /\ store["messages"].t = "json"

\* C13: after any sequence of logins, registrations and logouts, through the
\* remote or the local path, neither the session user nor the value stored
\* under currentUser has a password field.
C13_NoPasswordInSession ==
    /\ user # JNull => "password" \notin DOMAIN user
    /\ store["currentUser"].t = "json" =>
           "password" \notin DOMAIN store["currentUser"].v

\* C15: once the page has loaded against a working localStorage, a login
\* with the admin's phone and the password admin123 while the remote login
\* fails returns true, and isAdmin() is true afterwards.
C15_AdminBootstrap ==
    (/\ last.op = "login"
     /\ last.phone = AdminPhone
     /\ last.password = "admin123"
     /\ NetFails(last.net))
    => (last.res = Return(TRUE) /\ isAuthenticated /\ isAdmin)

\* The admin logged in from the roster with the remote unreachable.
C15_Witness ==
    /\ last.op = "login"
    /\ last.phone = AdminPhone /\ last.password = "admin123"
    /\ last.net = [k |-> "reject"]
    /\ last.via = "local"
    /\ isAdmin
    /\ user = DEFAULT_ADMIN

\* '202' + one digit + U+5C4A + class number + U+73ED + one or more Chinese
\* characters.
StudentForm(username) ==
    \E sep \in 7..(Len(username) - 1) :
        /\ SubSeq(username, 1, 3) = <<"2", "0", "2">>
        /\ username[4] \in Digit
        /\ username[5] = "jie"
        /\ username[6] \in Digit \ {"0"}
        /\ \A i \in 7..(sep - 1) : username[i] \in Digit
        /\ username[sep] = "ban"
        /\ \A i \in (sep + 1)..Len(username) : username[i] \in Chinese

\* One or more Chinese characters and nothing else.
TeacherForm(username) ==
    username # <<>> /\ \A i \in 1..Len(username) : username[i] \in Chinese

\* C16: on the local-fallback path a user name is accepted exactly when,
\* for a student, it has the form 202d + U+5C4A + N + U+73ED + Chinese name,
\* and for a teacher, it consists of one or more Chinese characters; every
\* other user name raises a format error.
C16_UsernameValidation ==
    (last.op = "register" /\ LocalFallback(last)) =>
        LET formOk == IF last.userType = "student"
                      THEN StudentForm(last.username)
                      ELSE TeacherForm(last.username)
        IN (last.res \in {Throw("BadStudentName"), Throw("BadTeacherName")})
               <=> ~formOk

\* The records of a roster.
Records(roster) == {roster.items[i] : i \in 1..Len(roster.items)}

\* C17: when register calls are in flight together and take the local
\* branch, each completion, in whatever order the remote calls settle,
\* leaves every record the roster held in the stored roster and adds its
\* own, so that the final roster holds both new records and every earlier
\* one.
C17_NoLostUpdate ==
    [][(last'.op = "register" /\ last'.via = "local") =>
          /\ IsArr(Roster')
          /\ Records(Roster) \subseteq Records(Roster')
          /\ Without(NewRecord(last'), "password") = user'
          /\ NewRecord(last') \in Records(Roster')
          /\ Len(Roster'.items) = Len(Roster.items) + 1]_vars

\* Two registrations issued together, the teacher's settling first: the
\* student's call was issued when the roster held the admin alone, and its
\* completion finds the teacher's record and keeps it.
C17_Witness ==
    /\ last.op = "register"
    /\ last.via = "local"
    /\ last.phone = Phone1
    /\ last.seen = 1
    /\ Len(Roster.items) = 3
    /\ Roster.items[2].phone = Phone2
    /\ Roster.items[3].phone = Phone1
    /\ calls = {}

\* C19: with a working localStorage the page load authenticates the session
\* with the stored user exactly when the currentUser key holds a present and
\* parseable value, and leaves it anonymous otherwise; in both cases, also
\* when the stored currentUser is not parseable, ensureAdminExists runs and
\* the roster holds the admin record afterwards (the users key holding an
\* array, nothing, or text that does not decode).
C19_Initialization ==
    [][(/\ last'.op = "initialize"
        /\ last'.sf = "ok"
        /\ store["users"].t = "json" => IsArr(store["users"].v))
       =>
       LET saved == store["currentUser"] IN
       /\ isAuthenticated' <=> saved.t = "json"
       /\ saved.t = "json" => user' = saved.v
       /\ saved.t # "json" => user' = JNull
       /\ last'.consulted
       /\ IsArr(Roster')
       /\ [password |-> "admin123"] @@ DEFAULT_ADMIN \in Records(Roster')]_vars

\* A page load over a currentUser that does not parse: anonymous, the admin
\* in the roster.
C19_Witness ==
    /\ last.op = "initialize"
    /\ last.sf = "ok"
    /\ store["currentUser"] = BadText
    /\ ~isAuthenticated
    /\ user = JNull
    /\ Roster.items = <<[password |-> "admin123"] @@ DEFAULT_ADMIN>>

\* C20: when a local-fallback register raises a validation error (user name
\* format, phone format, duplicate phone), the roster, the stored
\* currentUser and the session are exactly as before the call.
C20_ValidationPrecedesCreation ==
    [][(/\ last'.op = "register"
        /\ last'.res.t = "throw"
        /\ last'.res.e \in ValidationErrors)
       =>
       (/\ store' = store
        /\ isAuthenticated' = isAuthenticated
        /\ user' = user)]_vars

\* A registration refused for its phone while another user is signed in.
C20_Witness ==
    /\ last.op = "register"
    /\ last.res = Throw("BadPhone")
    /\ isAuthenticated
    /\ user.phone = Phone2
    /\ store["currentUser"] = JSONstringify(user)
    /\ Len(Roster.items) = 2

\* C21: with store writes succeeding, in every state between the steps of
\* page loads, logins, registrations and logouts, in any interleaving, the
\* currentUser key is present exactly when isAuthenticated is true, and its
\* value is then the session user.
C21_StoredSessionMirrors ==
    /\ isAuthenticated <=> store["currentUser"] # Absent
    /\ isAuthenticated => store["currentUser"] = JSONstringify(user)

\* A login accepted by the remote while a registration is still suspended:
\* the key holds the remote's user.
C21_Witness ==
    /\ last.op = "login"
    /\ last.via = "remote"
    /\ calls # {}
    /\ isAuthenticated
    /\ user = RemoteUser
    /\ store["currentUser"] = JSONstringify(RemoteUser)

\* C23: a login that returns false changes nothing: isAuthenticated, user,
\* the stored currentUser and the roster are after the call what they were
\* before it, also when another user is signed in.
C23_FailedLoginFrame ==
    [][(last'.op = "login" /\ last'.res = Return(FALSE)) =>
          /\ isAuthenticated' = isAuthenticated
          /\ user' = user
          /\ store' = store]_vars

\* A login refused while the teacher registered before stays signed in.
C23_Witness ==
    /\ last.op = "login"
    /\ last.res = Return(FALSE)
    /\ isAuthenticated
    /\ user.phone = Phone2
    /\ store["currentUser"] = JSONstringify(user)
    /\ PhoneInRoster(Phone2)

\* The session is anonymous: not authenticated, no user, no currentUser key.
Anonymous ==
    ~isAuthenticated /\ user = JNull /\ store["currentUser"] = Absent

\* The last step was a login or register that completed with true.
Succeeded == last.op \in {"login", "register"} /\ last.res = Return(TRUE)

\* C22 as stated: after logout() the session stays anonymous until a login
\* or register issued after that logout succeeds; a login or register that
\* was in flight when logout ran does not re-authenticate the session when
\* it completes.
C22_LogoutFinalForEarlier ==
    [][/\ last'.op = "logout" => Anonymous'
       /\ (Anonymous /\ ~Anonymous') => (Succeeded' /\ ~last'.stale)
       /\ (Anonymous /\ last'.op \in {"login", "register"} /\ last'.stale) =>
              Anonymous']_vars

\* C22 as amended: after logout() the session is anonymous and stays so
\* until some login or register call completes with success; in-flight calls
\* are not cancelled, so a login or register that was in flight when logout
\* ran re-authenticates the session when it completes successfully, exactly
\* as a call issued after the logout does.
C22_LogoutUntilNextSuccess ==
    [][/\ last'.op = "logout" => Anonymous'
       /\ (Anonymous /\ ~Anonymous') => Succeeded'
       /\ (Anonymous /\ Succeeded') =>
              (isAuthenticated' /\ user' # JNull
                  /\ store'["currentUser"] = JSONstringify(user'))]_vars

\* A login issued before a logout and accepted by the remote after it: the
\* session is authenticated again.
C22_Witness ==
    /\ last.op = "login"
    /\ last.stale
    /\ last.res = Return(TRUE)
    /\ last.via = "remote"
    /\ isAuthenticated
    /\ user = RemoteUser
    /\ calls = {}

====
